---- MODULE Spec2Model ----
(***************************************************************************)
(* Post lifecycle and publish orchestration of the TikTok scheduling       *)
(* dashboard.  The state is the database (tiktok_accounts, posts,          *)
(* post_analytics, with the foreign keys of shared/schema.ts) and the      *)
(* request handlers that are in flight.  Every `await` of a handler is a   *)
(* point where another handler may run, so a publish handler is a small    *)
(* process whose steps are the awaits of its code.                         *)
(*                                                                         *)
(* Two publish handlers are modelled: the one of simpleRoutes.ts           *)
(* (routes.ts registers the same handler text behind isAuthenticated) and  *)
(* the one of server.ts.  The analytics sweep (POST /api/sync-analytics)    *)
(* is a third process, in the three variants the repository has.  Spec and *)
(* SpecSeq start from the empty database; SpecSync and SpecPublish start   *)
(* from a database that earlier requests have left.                        *)
(***************************************************************************)
EXTENDS Integers, Sequences, FiniteSets, TLC

(* ---- bounds ----------------------------------------------------------- *)
MaxCrud     == 3      \* account and post requests served in one behaviour
NumHandlers == 2      \* publish requests served in one behaviour

PostIds    == 1..MaxCrud       \* posts.id is a serial
AccountIds == 1..MaxCrud       \* tiktok_accounts.id is a serial
Handlers   == 1..NumHandlers

(* ---- values ----------------------------------------------------------- *)
NULL   == "NULL"      \* SQL NULL of a text column
NoDate == 0           \* SQL NULL of a timestamp column

Statuses   == {"draft", "scheduled", "posting", "posted", "failed"}
RemoteIds  == {"mock_post_1", "mock_post_2"}   \* `mock_post_${Date.now()}`
Dates      == {1}                              \* new Date()
Metrics    == {1, 2}                           \* counters of a metrics entry
RemoteError == "Failed to post video from URL"
DbError     == "database error"
Implementations == {"simpleRoutes", "server"}

mockUserId == "demo_user_123"                  \* owner of every simpleRoutes post
serverUserId == "user123"                      \* owner of every server.ts post
Users      == {mockUserId, serverUserId}       \* req.user.claims.sub in routes.ts
PrivacyLevels == {"public", "friends", "private"}

VARIABLES
  tiktokAccounts,   \* table tiktok_accounts: id -> row
  posts,            \* table posts: id -> row
  postAnalytics,    \* table post_analytics: id -> row
  nextAccountId,    \* serial of tiktok_accounts.id
  nextPostId,       \* serial of posts.id
  nextAnalyticsId,  \* serial of post_analytics.id
  crud,             \* account and post requests served so far
  pc,               \* handler -> position in the publish handler
  impl,             \* handler -> which publish handler serves the request
  pid,              \* handler -> req.params.id
  snap,             \* handler -> `post` read by getPost (<<>> is undefined)
  result,           \* handler -> publish_id returned by the remote call
  error,            \* handler -> message of the error caught by the inner catch
  resp,             \* handler -> response sent
  trace,            \* handler -> effects of the invocation, in order
  postInfo,         \* handler -> `postInfo` built for the remote call
  handed,           \* handler -> the post options the remote call was given
  spc,              \* position in the sync-analytics handler
  simpl,            \* which sync-analytics handler serves the request
  suser,            \* the user whose posts are swept
  queue,            \* postedPosts still to be visited by the for loop
  fetched,          \* `metrics` of the post being visited
  sresp,            \* response of the sync-analytics handler
  strace,           \* effects of the sweep, in order: <<event, post id>>
  queryError,       \* client: the failure of the query's request
  failureCount,     \* client: failures of the query so far
  queryState        \* client: "idle", "fetching" or "failed"

vars == <<tiktokAccounts, posts, postAnalytics, nextAccountId, nextPostId,
          nextAnalyticsId, crud,
          pc, impl, pid, snap, result, error, resp, trace, postInfo,
          handed, spc, simpl, suser, queue, fetched, sresp, strace,
          queryError, failureCount, queryState>>

dbVars      == <<tiktokAccounts, posts, postAnalytics, nextAccountId, nextPostId,
                 nextAnalyticsId, crud>>
handlerVars == <<pc, impl, pid, snap, result, error, resp, trace, postInfo,
                 handed>>
syncVars    == <<spc, simpl, suser, queue, fetched, sresp, strace>>
clientVars  == <<queryError, failureCount, queryState>>

(* ---- DatabaseStorage -------------------------------------------------- *)
getPost(id) == IF id \in DOMAIN posts THEN <<posts[id]>> ELSE <<>>

\* getTikTokAccount that finds an account for every id.
getTikTokAccount_Found(id) == <<[userId |-> mockUserId, isActive |-> TRUE]>>

getTikTokAccount(id) ==
  IF id \in DOMAIN tiktokAccounts THEN <<tiktokAccounts[id]>> ELSE <<>>

\* The rows of post_analytics that belong to a post.
analyticsOf(table, postId) == {k \in DOMAIN table : table[k].postId = postId}

\* const [analytics] = select ... where post_id = postId
getPostAnalytics(postId) ==
  LET ids == analyticsOf(postAnalytics, postId) IN
  IF ids = {} THEN <<>>
  ELSE <<postAnalytics[CHOOSE k \in ids : \A j \in ids : k <= j]>>

\* .set({ ...updates }) : the columns named by `updates` are overwritten,
\* every other column keeps its value.
setColumns(row, updates) ==
  [c \in DOMAIN row |-> IF c \in DOMAIN updates THEN updates[c] ELSE row[c]]

\* updatePost without its where clause: every row is updated.
updatePost_NoWhere(id, updates) ==
  [k \in DOMAIN posts |-> setColumns(posts[k], updates)]

\* update(posts).set(...).where(eq(posts.id, id)): no row, no change.
updatePost(id, updates) ==
  IF id \in DOMAIN posts
    THEN [posts EXCEPT ![id] = setColumns(posts[id], updates)]
    ELSE posts

\* delete from a table, by key set
dropRows(table, ids) == [k \in (DOMAIN table) \ ids |-> table[k]]

insertRow(table, id, row) ==
  [k \in (DOMAIN table) \cup {id} |-> IF k = id THEN row ELSE table[k]]

(* ---- responses -------------------------------------------------------- *)
NoResponse == [code |-> 0, message |-> "", post |-> <<>>, tiktokPostId |-> NULL]

Json(code, message) ==
  [code |-> code, message |-> message, post |-> <<>>, tiktokPostId |-> NULL]

\* No publish request has arrived.
NoPublish ==
  /\ pc = [p \in Handlers |-> "idle"]
  /\ impl = [p \in Handlers |-> "simpleRoutes"]
  /\ pid = [p \in Handlers |-> 1]
  /\ snap = [p \in Handlers |-> <<>>]
  /\ result = [p \in Handlers |-> NULL]
  /\ error = [p \in Handlers |-> NULL]
  /\ resp = [p \in Handlers |-> NoResponse]
  /\ trace = [p \in Handlers |-> <<>>]
  /\ postInfo = [p \in Handlers |-> <<>>]
  /\ handed = [p \in Handlers |-> <<>>]

\* No sync-analytics request has arrived.
NoSweep ==
  /\ spc = "idle"
  /\ simpl = "simpleRoutes"
  /\ suser = mockUserId
  /\ queue = <<>>
  /\ fetched = <<>>
  /\ sresp = NoResponse
  /\ strace = <<>>

\* The client has no query running.
NoQuery ==
  /\ queryError = <<>>
  /\ failureCount = 0
  /\ queryState = "idle"

Init ==
  /\ tiktokAccounts = <<>>
  /\ posts = <<>>
  /\ postAnalytics = <<>>
  /\ nextAccountId = 1
  /\ nextPostId = 1
  /\ nextAnalyticsId = 1
  /\ crud = 0
  /\ NoPublish
  /\ NoSweep
  /\ NoQuery

(* ---- CRUD routes ------------------------------------------------------ *)
\* An optional field of a request body, or the default of its column.
Column(body, c, default) == IF c \in DOMAIN body THEN body[c] ELSE default

\* req.body of POST /api/posts as far as the lifecycle columns go: `status`
\* is optional in insertPostSchema and defaults to draft in the table.
PostBodies == [tiktokAccountId : AccountIds, status : Statuses]

\* req.body of PATCH /api/posts/:id; it is handed to updatePost as is.
PatchBodies ==
  {[status |-> s] : s \in Statuses}
    \cup {[tiktokPostId |-> NULL], [errorMessage |-> NULL], [postedAt |-> NoDate]}

\* One more account or post request is served.
Served ==
  /\ crud < MaxCrud
  /\ crud' = crud + 1
  /\ UNCHANGED handlerVars
  /\ UNCHANGED syncVars
  /\ UNCHANGED clientVars

\* POST /api/tiktok-accounts
CreateTikTokAccount(isActive) ==
  /\ Served
  /\ tiktokAccounts' =
       insertRow(tiktokAccounts, nextAccountId,
                 [userId |-> mockUserId, isActive |-> isActive])
  /\ nextAccountId' = nextAccountId + 1
  /\ UNCHANGED <<posts, postAnalytics, nextPostId, nextAnalyticsId>>

\* DELETE /api/tiktok-accounts/:id; posts.tiktok_account_id and
\* post_analytics.post_id are declared onDelete: "cascade".
DeleteTikTokAccount(id) ==
  LET gone == {k \in DOMAIN posts : posts[k].tiktokAccountId = id} IN
  /\ Served
  /\ id \in DOMAIN tiktokAccounts
  /\ tiktokAccounts' = dropRows(tiktokAccounts, {id})
  /\ posts' = dropRows(posts, gone)
  /\ postAnalytics' = dropRows(postAnalytics,
                         {k \in DOMAIN postAnalytics : postAnalytics[k].postId \in gone})
  /\ UNCHANGED <<nextAccountId, nextPostId, nextAnalyticsId>>

\* insertPostSchema.parse({ ...req.body, userId, ... }): the row that is
\* inserted.  The body is multipart, every field of it a string, so a body
\* with scheduledAt or postedAt fails z.date() and one with allowComments,
\* allowDuet or allowStitch fails z.boolean(), and stores nothing: a stored
\* row has no date and the toggles' default.
PostRow(userId, body) ==
  [userId          |-> userId,
   tiktokAccountId |-> body.tiktokAccountId,
   status          |-> Column(body, "status", "draft"),
   scheduledAt     |-> NoDate,
   tiktokPostId    |-> Column(body, "tiktokPostId", NULL),
   postedAt        |-> NoDate,
   privacyLevel    |-> Column(body, "privacyLevel", "public"),
   allowComments   |-> TRUE,
   allowDuet       |-> TRUE,
   allowStitch     |-> TRUE,
   title           |-> Column(body, "title", "video"),
   errorMessage    |-> Column(body, "errorMessage", NULL)]

\* POST /api/posts; the insert fails on the foreign key when the account
\* does not exist (400, nothing stored).
CreatePost(userId, body) ==
  /\ Served
  /\ body.tiktokAccountId \in DOMAIN tiktokAccounts
  /\ posts' = insertRow(posts, nextPostId, PostRow(userId, body))
  /\ nextPostId' = nextPostId + 1
  /\ UNCHANGED <<tiktokAccounts, postAnalytics, nextAccountId, nextAnalyticsId>>

\* The toggle fields of the multipart body of server.ts's POST /api/posts:
\* strings, all "true" or a mixture.
ToggleFields ==
  {[allowComments |-> "true", allowDuet |-> "true", allowStitch |-> "true"],
   [allowComments |-> "false", allowDuet |-> "true", allowStitch |-> "on"]}

\* POST /api/posts of server.ts: the post is scheduled when the body has a
\* scheduledFor and a draft otherwise; its owner is "user123" and its
\* account the one with id 1; a toggle is on when its field is "true".
CreatePostServer(scheduledFor, fields) ==
  /\ Served
  /\ 1 \in DOMAIN tiktokAccounts
  /\ posts' = insertRow(posts, nextPostId,
                 [PostRow(serverUserId, [tiktokAccountId |-> 1]) EXCEPT
                    !.scheduledAt = scheduledFor,
                    !.status = IF scheduledFor # NoDate THEN "scheduled"
                               ELSE "draft",
                    !.allowComments = (fields.allowComments = "true"),
                    !.allowDuet = (fields.allowDuet = "true"),
                    !.allowStitch = (fields.allowStitch = "true")])
  /\ nextPostId' = nextPostId + 1
  /\ UNCHANGED <<tiktokAccounts, postAnalytics, nextAccountId, nextAnalyticsId>>

\* PATCH /api/posts/:id
PatchPost(id, body) ==
  /\ Served
  /\ id \in DOMAIN posts
  /\ posts' = updatePost(id, body)
  /\ UNCHANGED <<tiktokAccounts, postAnalytics, nextAccountId, nextPostId,
                 nextAnalyticsId>>

\* DELETE /api/posts/:id
DeletePost(id) ==
  /\ Served
  /\ id \in DOMAIN posts
  /\ posts' = dropRows(posts, {id})
  /\ postAnalytics' = dropRows(postAnalytics, analyticsOf(postAnalytics, id))
  /\ UNCHANGED <<tiktokAccounts, nextAccountId, nextPostId, nextAnalyticsId>>

\* The row an insert of `data` stores: a counter that `data` does not
\* name takes the default of its column.
AnalyticsRow(data, now) ==
  [postId       |-> data.postId,
   viewCount    |-> Column(data, "viewCount", 0),
   playDuration |-> Column(data, "playDuration", 0),
   updatedAt    |-> now]

\* insert(postAnalytics).values(data).onConflictDoUpdate({ target: postId,
\* set: { ...data, updatedAt: new Date() } }), when the statement is
\* accepted: a row of the post is overwritten in the columns `data` names,
\* else a row is inserted.
upsertPostAnalytics(data, now) ==
  LET ids == analyticsOf(postAnalytics, data.postId) IN
  IF ids = {}
    THEN insertRow(postAnalytics, nextAnalyticsId, AnalyticsRow(data, now))
    ELSE [k \in DOMAIN postAnalytics |->
            IF k \in ids
              THEN setColumns(postAnalytics[k], [c \in (DOMAIN data) \cup {"updatedAt"}
                                 |-> IF c = "updatedAt" THEN now ELSE data[c]])
              ELSE postAnalytics[k]]

\* The statement is accepted only if the post exists (post_id references
\* posts.id).
upsertAccepted(data) == data.postId \in DOMAIN posts

\* The data of the upsert of server.ts: every counter is random.
ServerData(id, n) == [postId |-> id, viewCount |-> n, playDuration |-> n]

\* GET /api/posts/:id/analytics of server.ts: a missing row is created
\* with random numbers (the insert needs the post to exist).
GetAnalyticsServer(id, n) ==
  /\ Served
  /\ id \in DOMAIN posts
  /\ getPostAnalytics(id) = <<>>
  /\ \E now \in Dates :
       postAnalytics' = upsertPostAnalytics(ServerData(id, n), now)
  /\ nextAnalyticsId' = nextAnalyticsId + 1
  /\ UNCHANGED <<tiktokAccounts, posts, nextAccountId, nextPostId>>

(* ---- POST /api/posts/:id/publish -------------------------------------- *)
\* The handler moves on to its next await with locals post, result, error.
Goto(p, label, post, publishId, err, events) ==
  /\ pc' = [pc EXCEPT ![p] = label]
  /\ snap' = [snap EXCEPT ![p] = post]
  /\ result' = [result EXCEPT ![p] = publishId]
  /\ error' = [error EXCEPT ![p] = err]
  /\ trace' = [trace EXCEPT ![p] = trace[p] \o events]
  /\ UNCHANGED resp

\* res.json(...): the response is sent, the handler returns and its locals
\* are gone.
Respond(p, r, events) ==
  /\ pc' = [pc EXCEPT ![p] = "done"]
  /\ snap' = [snap EXCEPT ![p] = <<>>]
  /\ result' = [result EXCEPT ![p] = NULL]
  /\ error' = [error EXCEPT ![p] = NULL]
  /\ trace' = [trace EXCEPT ![p] = trace[p] \o events \o <<"respond">>]
  /\ resp' = [resp EXCEPT ![p] = r]

\* Requests are numbered in the order they arrive.
Arrives(p) ==
  /\ pc[p] = "idle"
  /\ \A q \in Handlers : q < p => pc[q] # "idle"

\* What the invocation read: the status of `post`.
Read(status) ==
  CASE status = "draft"     -> "read_draft"
    [] status = "scheduled" -> "read_scheduled"
    [] status = "posting"   -> "read_posting"
    [] status = "posted"    -> "read_posted"
    [] status = "failed"    -> "read_failed"

\* PublishLoad without its `if (!post)` return: the handler goes on to the
\* remote call with no post.
PublishLoad_NoCheck(p, id, im) ==
  /\ Arrives(p)
  /\ pid' = [pid EXCEPT ![p] = id]
  /\ impl' = [impl EXCEPT ![p] = im]
  /\ Goto(p, "call", getPost(id), NULL, NULL, <<>>)
  /\ UNCHANGED <<postInfo, handed>>
  /\ UNCHANGED dbVars
  /\ UNCHANGED syncVars
  /\ UNCHANGED clientVars

\* const post = await storage.getPost(postId); if (!post) 404
PublishLoad(p, id, im) ==
  /\ Arrives(p)
  /\ pid' = [pid EXCEPT ![p] = id]
  /\ impl' = [impl EXCEPT ![p] = im]
  /\ IF getPost(id) = <<>>
       THEN Respond(p, Json(404, "Post not found"), <<>>)
       ELSE Goto(p, IF im = "server" THEN "call" ELSE "account",
                 getPost(id), NULL, NULL, <<Read(posts[id].status)>>)
  /\ UNCHANGED <<postInfo, handed>>
  /\ UNCHANGED dbVars
  /\ UNCHANGED syncVars
  /\ UNCHANGED clientVars

\* const tiktokAccount = await storage.getTikTokAccount(...); if (!...) 404
PublishAccount(p) ==
  /\ pc[p] = "account"
  /\ IF getTikTokAccount(snap[p][1].tiktokAccountId) = <<>>
       THEN Respond(p, Json(404, "TikTok account not found"), <<>>)
       ELSE Goto(p, "posting", snap[p], NULL, NULL, <<>>)
  /\ UNCHANGED <<impl, pid, postInfo, handed>>
  /\ UNCHANGED syncVars
  /\ UNCHANGED clientVars
  /\ UNCHANGED dbVars

\* await storage.updatePost(postId, { status: "posting" }), outside the
\* inner try: a rejection goes to the outer catch.
PublishPosting(p) ==
  /\ pc[p] = "posting"
  /\ \/ /\ posts' = updatePost(pid[p], [status |-> "posting"])
        /\ Goto(p, "call", snap[p], NULL, NULL, <<"write_posting">>)
     \/ /\ UNCHANGED posts
        /\ Respond(p, Json(500, DbError), <<"posting_write_threw">>)
  /\ UNCHANGED <<impl, pid, postInfo, handed>>
  /\ UNCHANGED syncVars
  /\ UNCHANGED clientVars
  /\ UNCHANGED <<tiktokAccounts, postAnalytics, nextAccountId, nextPostId,
                 nextAnalyticsId, crud>>

\* PrivacyLevel that maps every post to the public level.
PrivacyLevel_AllPublic(privacyLevel) == "PUBLIC_TO_EVERYONE"

\* post.privacyLevel === 'public' ? 'PUBLIC_TO_EVERYONE' :
\* post.privacyLevel === 'friends' ? 'MUTUAL_FOLLOW_FRIEND' : 'SELF_ONLY'
PrivacyLevel(privacyLevel) ==
  IF privacyLevel = "public" THEN "PUBLIC_TO_EVERYONE"
  ELSE IF privacyLevel = "friends" THEN "MUTUAL_FOLLOW_FRIEND"
  ELSE "SELF_ONLY"

\* const postInfo = { title, privacy_level, disable_duet, disable_comment,
\* disable_stitch }
PostInfo(post) ==
  [title           |-> post.title,
   privacy_level   |-> PrivacyLevel(post.privacyLevel),
   disable_duet    |-> ~post.allowDuet,
   disable_comment |-> ~post.allowComments,
   disable_stitch  |-> ~post.allowStitch]

\* The post options in the arguments of the remote call:
\* apiService.postVideoFromUrl(url, postInfo) in simpleRoutes.ts and
\* routes.ts, apiService.postVideo() in server.ts.
Handed(im, info) == IF im = "server" THEN <<>> ELSE <<info>>

\* const result = await apiService.postVideoFromUrl(...) / postVideo()
\* The client returns a publish_id or throws (tiktokApi.ts:130-133).
PublishCall(p) ==
  /\ pc[p] = "call"
  /\ postInfo' = [postInfo EXCEPT ![p] = <<PostInfo(snap[p][1])>>]
  /\ handed' = [handed EXCEPT ![p] = Handed(impl[p], PostInfo(snap[p][1]))]
  /\ \/ \E id \in RemoteIds :
          Goto(p, "posted", snap[p], id, NULL, <<"remote_call", "remote_ok">>)
     \/ IF impl[p] = "server"
          THEN Respond(p, Json(500, "Failed to publish post"),
                       <<"remote_call", "remote_threw">>)
          ELSE Goto(p, "failed", snap[p], NULL, RemoteError,
                    <<"remote_call", "remote_threw">>)
  /\ UNCHANGED <<impl, pid>>
  /\ UNCHANGED syncVars
  /\ UNCHANGED clientVars
  /\ UNCHANGED dbVars

\* The body of the success response.
PublishedResponse(im, publishId, updatedPost) ==
  IF im = "server"
    THEN [code |-> 200, message |-> "Post published successfully",
          post |-> <<>>, tiktokPostId |-> publishId]
    ELSE [code |-> 200, message |-> "", post |-> updatedPost,
          tiktokPostId |-> NULL]

\* PostedColumns without the status.
PostedColumns_NoStatus(publishId, now) ==
  [tiktokPostId |-> publishId, postedAt |-> now]

\* The columns written after a successful remote call.
PostedColumns(publishId, now) ==
  [status |-> "posted", tiktokPostId |-> publishId, postedAt |-> now]

\* The columns written by the inner catch.
FailedColumns(message) ==
  [status |-> "failed", errorMessage |-> message]

\* await storage.updatePost(postId, { status: "posted", tiktokPostId,
\* postedAt: new Date() }); res.json(...)
PublishPosted(p) ==
  /\ pc[p] = "posted"
  /\ \/ \E now \in Dates :
          /\ posts' = updatePost(pid[p], PostedColumns(result[p], now))
          /\ Respond(p, PublishedResponse(impl[p], result[p],
                          IF pid[p] \in DOMAIN posts
                            THEN <<posts'[pid[p]]>> ELSE <<>>),
                     <<"write_posted">>)
     \/ /\ UNCHANGED posts
        /\ IF impl[p] = "server"
             THEN Respond(p, Json(500, "Failed to publish post"),
                          <<"posted_write_threw">>)
             ELSE Goto(p, "failed", snap[p], result[p], DbError,
                       <<"posted_write_threw">>)
  /\ UNCHANGED <<impl, pid, postInfo, handed>>
  /\ UNCHANGED syncVars
  /\ UNCHANGED clientVars
  /\ UNCHANGED <<tiktokAccounts, postAnalytics, nextAccountId, nextPostId,
                 nextAnalyticsId, crud>>

\* PublishFailed with a retry: after the write of failed the handler calls
\* the remote client again instead of answering.
PublishFailed_Retry(p) ==
  /\ pc[p] = "failed"
  /\ posts' = updatePost(pid[p], FailedColumns(error[p]))
  /\ Goto(p, "call", snap[p], NULL, NULL, <<"write_failed">>)
  /\ UNCHANGED <<impl, pid, postInfo, handed>>
  /\ UNCHANGED syncVars
  /\ UNCHANGED clientVars
  /\ UNCHANGED <<tiktokAccounts, postAnalytics, nextAccountId, nextPostId,
                 nextAnalyticsId, crud>>

\* catch (error) { await storage.updatePost(postId, { status: "failed",
\* errorMessage: error.message }); throw error; } and the outer catch
PublishFailed(p) ==
  /\ pc[p] = "failed"
  /\ \/ /\ posts' = updatePost(pid[p], FailedColumns(error[p]))
        /\ Respond(p, Json(500, error[p]), <<"write_failed">>)
     \/ /\ UNCHANGED posts
        /\ Respond(p, Json(500, DbError), <<"failed_write_threw">>)
  /\ UNCHANGED <<impl, pid, postInfo, handed>>
  /\ UNCHANGED syncVars
  /\ UNCHANGED clientVars
  /\ UNCHANGED <<tiktokAccounts, postAnalytics, nextAccountId, nextPostId,
                 nextAnalyticsId, crud>>

(* ---- POST /api/sync-analytics ----------------------------------------- *)
SyncImplementations == {"simpleRoutes", "routes", "server"}

\* The user whose posts a sweep lists: mockUserId in simpleRoutes.ts, the
\* session's user in routes.ts, "user123" in server.ts.
SweepsFor(im, user) ==
  CASE im = "simpleRoutes" -> user = mockUserId
    [] im = "server"       -> user = serverUserId
    [] im = "routes"       -> user \in Users

\* The elements of a set of ids, greatest first.
RECURSIVE Descending(_)
Descending(ids) ==
  IF ids = {} THEN <<>>
  ELSE LET m == CHOOSE k \in ids : \A j \in ids : j <= k
       IN <<m>> \o Descending(ids \ {m})

\* select from posts where user_id = userId order by created_at desc
getPosts(userId) ==
  LET ids == Descending({k \in DOMAIN posts : posts[k].userId = userId})
  IN [i \in 1..Len(ids) |-> [id |-> ids[i], post |-> posts[ids[i]]]]

Selected(im, e) ==
  IF im = "server"
    THEN e.post.status = "posted"
    ELSE e.post.status = "posted" /\ e.post.tiktokPostId # NULL

\* posts.filter(...)
postedPosts(im, userId) ==
  SelectSeq(getPosts(userId), LAMBDA e : Selected(im, e))

\* The for loop goes on with the posts `q`; after the last one the handler
\* answers res.json({ message: "Analytics synced successfully" }).
Visit(im, q, events) ==
  /\ queue' = q
  /\ fetched' = <<>>
  /\ strace' = strace \o events
  /\ IF q = <<>>
       THEN /\ spc' = "done"
            /\ sresp' = Json(200, "Analytics synced successfully")
       ELSE /\ spc' = IF im = "server" THEN "upsert" ELSE "account"
            /\ sresp' = sresp

\* const posts = await storage.getPosts(userId); const postedPosts = ...
SyncLoad(im, user) ==
  /\ spc = "idle"
  /\ SweepsFor(im, user)
  /\ simpl' = im
  /\ suser' = user
  /\ Visit(im, postedPosts(im, user),
           [i \in 1..Len(postedPosts(im, user)) |->
              <<"selected", postedPosts(im, user)[i].id>>])
  /\ UNCHANGED dbVars
  /\ UNCHANGED handlerVars
  /\ UNCHANGED clientVars

\* const tiktokAccount = await storage.getTikTokAccount(...);
\* if (!tiktokAccount) continue;
SyncAccount ==
  /\ spc = "account"
  /\ IF getTikTokAccount(queue[1].post.tiktokAccountId) = <<>>
       THEN Visit(simpl, Tail(queue), << <<"skip", queue[1].id>> >>)
       ELSE /\ spc' = "metrics"
            /\ UNCHANGED <<queue, fetched, sresp, strace>>
  /\ UNCHANGED <<simpl, suser>>
  /\ UNCHANGED dbVars
  /\ UNCHANGED handlerVars
  /\ UNCHANGED clientVars

\* if (metrics) without the test.
HasMetrics_Always(metrics) == TRUE

\* if (metrics): the mapping has an entry for the id (<<>> is undefined).
HasMetrics(metrics) == metrics # <<>>

\* const analyticsData = await apiService.getVideoAnalytics([tiktokPostId]);
\* const metrics = analyticsData[tiktokPostId]?.metrics.  The client returns
\* a mapping with or without an entry for the id, or throws
\* (tiktokApi.ts:137-180); a throw is logged by the inner catch.
SyncMetrics ==
  /\ spc = "metrics"
  /\ \/ \E metrics \in {<<>>} \cup {<<m>> : m \in Metrics} :
          IF HasMetrics(metrics)
            THEN /\ spc' = "upsert"
                 /\ fetched' = metrics
                 /\ strace' = strace \o << <<"entry", queue[1].id>> >>
                 /\ UNCHANGED <<queue, sresp>>
            ELSE Visit(simpl, Tail(queue), << <<"no_entry", queue[1].id>> >>)
     \/ Visit(simpl, Tail(queue), << <<"remote_threw", queue[1].id>> >>)
  /\ UNCHANGED <<simpl, suser>>
  /\ UNCHANGED dbVars
  /\ UNCHANGED handlerVars
  /\ UNCHANGED clientVars

\* The data of the upsert of simpleRoutes.ts and routes.ts: the counters of
\* the metrics entry; playDuration is not among them.
SyncData(id, m) == [postId |-> id, viewCount |-> m]

\* await storage.upsertPostAnalytics({ postId: post.id, ... }).  The
\* statement is stored, or the database rejects it: the post is gone, or
\* post_analytics has no unique index on post_id for ON CONFLICT to use
\* (schema.ts declares none).  simpleRoutes.ts and routes.ts log the
\* rejection and go on; server.ts has no inner try and answers 500.
SyncUpsert ==
  /\ spc = "upsert"
  /\ \/ \E n \in Metrics, now \in Dates :
          LET data == IF simpl = "server" THEN ServerData(queue[1].id, n)
                      ELSE SyncData(queue[1].id, fetched[1]) IN
          /\ simpl # "server" => n = fetched[1]
          /\ upsertAccepted(data)
          /\ postAnalytics' = upsertPostAnalytics(data, now)
          /\ nextAnalyticsId' = nextAnalyticsId + 1
          /\ Visit(simpl, Tail(queue), << <<"upsert", queue[1].id>> >>)
     \/ LET thrown == IF queue[1].id \in DOMAIN posts THEN "upsert_threw"
                       ELSE "upsert_gone" IN
        /\ UNCHANGED <<postAnalytics, nextAnalyticsId>>
        /\ IF simpl = "server"
             THEN /\ spc' = "done"
                  /\ sresp' = Json(500, "Failed to sync analytics")
                  /\ queue' = <<>>
                  /\ fetched' = <<>>
                  /\ strace' = strace \o << <<thrown, queue[1].id>> >>
             ELSE Visit(simpl, Tail(queue), << <<thrown, queue[1].id>> >>)
  /\ UNCHANGED <<simpl, suser>>
  /\ UNCHANGED <<tiktokAccounts, posts, nextAccountId, nextPostId, crud>>
  /\ UNCHANGED handlerVars
  /\ UNCHANGED clientVars

\* The awaits of a sweep after its first.
Sweep ==
  \/ SyncAccount
  \/ SyncMetrics
  \/ SyncUpsert

Range(seq) == {seq[i] : i \in DOMAIN seq}

\* How often event e is in a trace.
Count(seq, e) == Cardinality({i \in DOMAIN seq : seq[i] = e})

\* Handler p takes a step of its publish invocation.
Steps(p) == pc'[p] # pc[p]

\* Handler p takes the last step of its invocation.
Ends(p) == pc[p] # "done" /\ pc'[p] = "done"

\* Account, post and analytics requests.
Crud ==
  \/ CreateTikTokAccount(TRUE)
  \/ CreateTikTokAccount(FALSE)
  \/ \E id \in AccountIds : DeleteTikTokAccount(id)
  \/ \E body \in PostBodies : CreatePost(mockUserId, body)
  \/ \E scheduledFor \in {NoDate} \cup Dates, fields \in ToggleFields : CreatePostServer(scheduledFor, fields)
  \/ \E id \in PostIds, body \in PatchBodies : PatchPost(id, body)
  \/ \E id \in PostIds : DeletePost(id)
  \/ \E id \in PostIds, n \in Metrics : GetAnalyticsServer(id, n)

\* The awaits of a publish invocation after its first.
Continue ==
  \/ \E p \in Handlers : PublishAccount(p)
  \/ \E p \in Handlers : PublishPosting(p)
  \/ \E p \in Handlers : PublishCall(p)
  \/ \E p \in Handlers : PublishPosted(p)
  \/ \E p \in Handlers : PublishFailed(p)

Next ==
  \/ Crud
  \/ \E p \in Handlers, id \in PostIds, im \in Implementations :
       PublishLoad(p, id, im)
  \/ Continue

Spec == Init /\ [][Next]_vars

\* Callers serialize their publish requests (the assumption the design
\* places on them): a request arrives when no other is in flight.  Account
\* and post requests still run between the steps of a publish invocation.
NoneInFlight == \A q \in Handlers : pc[q] \in {"idle", "done"}

NextSeq ==
  \/ Crud
  \/ \E p \in Handlers, id \in PostIds, im \in Implementations :
       NoneInFlight /\ PublishLoad(p, id, im)
  \/ Continue

SpecSeq == Init /\ [][NextSeq]_vars

Retriable == {"draft", "scheduled", "failed"}

\* A database that earlier requests have left: SweepPosts accounts and
\* posts, each of either owner, posted or not, with or without a remote id.
\* Post k is on account k, a post of "user123" on account 1.
SweepPosts == 2

StoredPosts ==
  {[PostRow(u, [tiktokAccountId |-> a, status |-> st]) EXCEPT !.tiktokPostId = r] :
     u \in Users, a \in 1..SweepPosts, st \in {"draft", "posted"},
     r \in {NULL, "mock_post_1"}}

InitSync ==
  /\ tiktokAccounts = [a \in 1..SweepPosts |->
                         [userId |-> mockUserId, isActive |-> TRUE]]
  /\ posts \in {t \in [1..SweepPosts -> StoredPosts] :
                  \A k \in DOMAIN t :
                    t[k].tiktokAccountId =
                      IF t[k].userId = serverUserId THEN 1 ELSE k}
  /\ postAnalytics = <<>>
  /\ nextAccountId = SweepPosts + 1
  /\ nextPostId = SweepPosts + 1
  /\ nextAnalyticsId = 1
  /\ crud = 0
  /\ NoPublish
  /\ NoSweep
  /\ NoQuery

\* What the privacy_level column of a stored post can hold: the three
\* levels, and through PATCH /api/posts/:id or the body of server.ts's
\* POST /api/posts also null and any other string.
StoredPrivacy == PrivacyLevels \cup {NULL, "everyone"}

\* A database with one account and one post on it, the post with any
\* owner, status, remote id, error message and privacy level.
InitPublish ==
  /\ tiktokAccounts = <<[userId |-> mockUserId, isActive |-> TRUE]>>
  /\ posts \in {<<[r EXCEPT !.privacyLevel = v, !.status = st, !.errorMessage = e]>> :
                  r \in {x \in StoredPosts : x.tiktokAccountId = 1},
                  v \in StoredPrivacy, st \in Statuses, e \in {NULL, RemoteError}}
  /\ postAnalytics = <<>>
  /\ nextAccountId = 2
  /\ nextPostId = 2
  /\ nextAnalyticsId = 1
  /\ crud = 0
  /\ NoPublish
  /\ NoSweep
  /\ NoQuery

\* Publish invocations on the stored post.
NextPublish ==
  \/ \E p \in Handlers, im \in Implementations : PublishLoad(p, 1, im)
  \/ Continue

SpecPublish == InitPublish /\ [][NextPublish]_vars

\* Requests on the accounts and posts that exist run between the awaits of
\* a sweep.
NextSync ==
  \/ \E id \in AccountIds : DeleteTikTokAccount(id)
  \/ \E id \in PostIds, body \in PatchBodies : PatchPost(id, body)
  \/ \E id \in PostIds : DeletePost(id)
  \/ \E id \in PostIds, n \in Metrics : GetAnalyticsServer(id, n)
  \/ \E im \in SyncImplementations, user \in Users : SyncLoad(im, user)
  \/ Sweep

SpecSync == InitSync /\ [][NextSync]_vars

\* A database with one account and one draft post on it that has never
\* been published, with any owner, title and toggles.
Titles == {"video", "clip"}

InitFresh ==
  /\ tiktokAccounts = <<[userId |-> mockUserId, isActive |-> TRUE]>>
  /\ posts \in {<<[PostRow(u, [tiktokAccountId |-> 1, title |-> t]) EXCEPT
                     !.allowComments = c, !.allowDuet = d, !.allowStitch = st]>> :
                  u \in Users, t \in Titles, c \in BOOLEAN, d \in BOOLEAN,
                  st \in BOOLEAN}
  /\ postAnalytics = <<>>
  /\ nextAccountId = 2
  /\ nextPostId = 2
  /\ nextAnalyticsId = 1
  /\ crud = 0
  /\ NoPublish
  /\ NoSweep
  /\ NoQuery

\* Publish invocations on the fresh post, concurrent or one after another.
SpecFresh == InitFresh /\ [][NextPublish]_vars

\* The stored posts that are drafts never published or posts published
\* once.
PublishedOrDraft ==
  {x \in StoredPosts : (x.status = "posted") <=> (x.tiktokPostId # NULL)}

\* A database with two accounts and two posts of different titles, each
\* a draft or already published, the first of either owner.
InitFrame ==
  /\ tiktokAccounts = [a \in 1..SweepPosts |->
                         [userId |-> mockUserId, isActive |-> TRUE]]
  /\ posts \in {<<[a EXCEPT !.title = "video"], [b EXCEPT !.title = "clip"]>> :
                  a \in {x \in PublishedOrDraft : x.tiktokAccountId = 1},
                  b \in {x \in PublishedOrDraft : x.userId = mockUserId
                                                    /\ x.tiktokAccountId = 2}}
  /\ postAnalytics = <<>>
  /\ nextAccountId = SweepPosts + 1
  /\ nextPostId = SweepPosts + 1
  /\ nextAnalyticsId = 1
  /\ crud = 0
  /\ NoPublish
  /\ NoSweep
  /\ NoQuery

\* Publish invocations and a sweep run side by side.
NextFrame ==
  \/ \E p \in Handlers, id \in 1..SweepPosts, im \in Implementations :
       PublishLoad(p, id, im)
  \/ Continue
  \/ \E im \in SyncImplementations, user \in Users : SyncLoad(im, user)
  \/ Sweep

SpecFrame == InitFrame /\ [][NextFrame]_vars

(* ---- routes.ts: the routes behind isAuthenticated ---------------------- *)
\* `user` is req.user.claims.sub, the user of the session; the handlers
\* below never read it.

\* app.patch('/api/posts/:id', isAuthenticated, ...)
RoutesPatchPost(user, id, body) == PatchPost(id, body)

\* app.delete('/api/posts/:id', isAuthenticated, ...)
RoutesDeletePost(user, id) == DeletePost(id)

\* app.delete('/api/tiktok-accounts/:id', isAuthenticated, ...)
RoutesDeleteTikTokAccount(user, id) == DeleteTikTokAccount(id)

\* app.post('/api/posts/:id/publish', isAuthenticated, ...): the handler
\* has the steps of the one in simpleRoutes.ts.
RoutesPublish(user, p, id) == PublishLoad(p, id, "simpleRoutes")

\* A database with an account and a draft post of each of two users.
InitAuth ==
  /\ tiktokAccounts = <<[userId |-> mockUserId, isActive |-> TRUE],
                        [userId |-> serverUserId, isActive |-> TRUE]>>
  /\ posts = <<PostRow(mockUserId, [tiktokAccountId |-> 1]),
               PostRow(serverUserId, [tiktokAccountId |-> 2])>>
  /\ postAnalytics = <<>>
  /\ nextAccountId = 3
  /\ nextPostId = 3
  /\ nextAnalyticsId = 1
  /\ crud = 0
  /\ NoPublish
  /\ NoSweep
  /\ NoQuery

\* Bodies of a PATCH that reschedules a post or clears its error message.
AuthBodies == {[status |-> "scheduled"], [errorMessage |-> NULL]}

\* Requests of either user on the records of both.
NextAuth ==
  \/ \E user \in Users, id \in PostIds, body \in AuthBodies :
       RoutesPatchPost(user, id, body)
  \/ \E user \in Users, id \in PostIds : RoutesDeletePost(user, id)
  \/ \E user \in Users, id \in AccountIds : RoutesDeleteTikTokAccount(user, id)
  \/ \E user \in Users, p \in Handlers, id \in PostIds : RoutesPublish(user, p, id)
  \/ Continue

SpecAuth == InitAuth /\ [][NextAuth]_vars

(* ---- client: queryClient of App.tsx ----------------------------------- *)
\* Texts are sequences of characters.
DigitChars == <<"0", "1", "2", "3", "4", "5", "6", "7", "8", "9">>

\* `${response.status}`: the decimal digits of a status code.
RECURSIVE Digits(_)
Digits(n) ==
  IF n < 10 THEN <<DigitChars[n + 1]>>
  ELSE Digits(n \div 10) \o <<DigitChars[(n % 10) + 1]>>

\* String.prototype.includes
Includes(text, part) ==
  \E i \in 0..(Len(text) - Len(part)) : SubSeq(text, i + 1, i + Len(part)) = part

\* Status codes of a response that is not ok, and 0 for a fetch that
\* rejects without a response.
NetworkFailure == 0
FailureCodes == {NetworkFailure, 400, 404, 408, 429, 500, 503, 504}

\* Bodies of a failed response: empty, {}, and texts with digits in them.
Bodies == {<<>>, <<"{", "}">>, <<"4">>, <<"4", "0", "8">>, <<"4", "2", "9">>}

\* The message of the rejection of fetch itself.
FetchMessage == <<"F", "a", "i", "l", "e", "d", " ", "t", "o", " ",
                  "f", "e", "t", "c", "h">>

\* throw new Error(`${response.status}: ${error}`)
queryFnMessage(status, body) ==
  IF status = NetworkFailure THEN FetchMessage
  ELSE Digits(status) \o <<":", " ">> \o body

\* retry: (failureCount, error) => ...
retry(count, message) ==
  IF /\ Includes(message, <<"4">>)
     /\ ~Includes(message, <<"4", "0", "8">>)
     /\ ~Includes(message, <<"4", "2", "9">>)
    THEN FALSE
    ELSE count < 3

\* A query starts fetching, for the first time or again.
QueryStart ==
  /\ queryState # "fetching"
  /\ queryState' = "fetching"
  /\ failureCount' = 0
  /\ queryError' = <<>>
  /\ UNCHANGED <<dbVars, handlerVars, syncVars>>

\* The request of the query fails; the library asks `retry` with the
\* number of failures before this one and fetches again when it says so.
QueryFails(status, body) ==
  /\ queryState = "fetching"
  /\ queryError' = <<[status |-> status,
                      message |-> queryFnMessage(status, body)]>>
  /\ IF retry(failureCount, queryFnMessage(status, body))
       THEN /\ failureCount' = failureCount + 1
            /\ queryState' = "fetching"
       ELSE /\ queryState' = "error"
            /\ UNCHANGED failureCount
  /\ UNCHANGED <<dbVars, handlerVars, syncVars>>

\* return response.json()
QuerySucceeds ==
  /\ queryState = "fetching"
  /\ queryState' = "success"
  /\ UNCHANGED <<queryError, failureCount>>
  /\ UNCHANGED <<dbVars, handlerVars, syncVars>>

NextRetry ==
  \/ QueryStart
  \/ \E status \in FailureCodes, body \in Bodies : QueryFails(status, body)
  \/ QuerySucceeds

SpecRetry == Init /\ [][NextRetry]_vars

(* ---- C1 --------------------------------------------------------------- *)
\* C1: every stored post has status posted if and only if its tiktokPostId
\* and its postedAt are both set.
C1_PostedIffRemoteIdAndPostedAt ==
  \A id \in DOMAIN posts :
    (posts[id].status = "posted")
      <=> (posts[id].tiktokPostId # NULL /\ posts[id].postedAt # NoDate)

(* ---- C2 --------------------------------------------------------------- *)
\* C2: when the remote call of a publish invocation throws and the handler's
\* write of the failure is stored, the post is failed with an error message
\* and without a remote post id, and the caller gets the error.
C2_RemoteFailureLeavesNoRemoteId ==
  [][\A p \in Handlers :
       (/\ pc[p] = "failed"
        /\ error[p] = RemoteError
        /\ Ends(p)
        /\ "write_failed" \in Range(trace'[p])
        /\ pid[p] \in DOMAIN posts')
         => /\ posts'[pid[p]].status = "failed"
            /\ posts'[pid[p]].errorMessage # NULL
            /\ posts'[pid[p]].tiktokPostId = NULL
            /\ resp'[p].code = 500]_vars

(* ---- C3 --------------------------------------------------------------- *)
\* C3: when the remote call succeeds for a post read as draft, scheduled or
\* failed, the post is stored as posted with the returned publish id, a
\* postedAt and no error message, and the stored post is the response.
C3_SuccessStoresPostedAndClearsError ==
  [][\A p \in Handlers :
       (/\ pc[p] = "posted"
        /\ impl[p] = "simpleRoutes"
        /\ snap[p][1].status \in Retriable
        /\ Ends(p)
        /\ "write_posted" \in Range(trace'[p])
        /\ pid[p] \in DOMAIN posts')
         => /\ posts'[pid[p]].status = "posted"
            /\ posts'[pid[p]].tiktokPostId = result[p]
            /\ posts'[pid[p]].postedAt # NoDate
            /\ posts'[pid[p]].errorMessage = NULL
            /\ resp'[p].code = 200
            /\ resp'[p].post = <<posts'[pid[p]]>>]_vars

(* ---- C4 --------------------------------------------------------------- *)
\* C4: posted is terminal: no step of a publish invocation changes the
\* status, tiktokPostId or postedAt of a post whose status is posted.
C4_PostedIsTerminal ==
  [][\A p \in Handlers : \A id \in DOMAIN posts :
       (Steps(p) /\ posts[id].status = "posted" /\ id \in DOMAIN posts')
         => /\ posts'[id].status = "posted"
            /\ posts'[id].tiktokPostId = posts[id].tiktokPostId
            /\ posts'[id].postedAt = posts[id].postedAt]_vars

(* ---- C5 --------------------------------------------------------------- *)
\* C5: a publish invocation writes status posting only over draft, scheduled
\* or failed; on a post that is posting or posted it answers 409, calls no
\* remote client and leaves the post as it is.
C5_PostingOnlyFromRetriable ==
  [][\A p \in Handlers :
       (pc[p] = "posting" /\ Steps(p) /\ pid[p] \in DOMAIN posts
          /\ posts[pid[p]].status \notin Retriable)
         => /\ posts' = posts
            /\ pc'[p] = "done"
            /\ resp'[p].code = 409]_vars

C7_PostingStoredBeforeRemoteCall ==
  \A p \in Handlers :
    /\ (pc[p] = "call" \/ "remote_call" \in Range(trace[p]))
         => "write_posting" \in Range(trace[p])
    /\ resp[p].code = 200 => "write_posted" \in Range(trace[p])

(* ---- C8 --------------------------------------------------------------- *)
\* C8: when the account of the post is absent or inactive, the publish
\* invocation answers 404 and the post is not changed.
C8_InactiveAccountNotFound ==
  [][\A p \in Handlers :
       LET account == getTikTokAccount(snap[p][1].tiktokAccountId) IN
       (/\ pc[p] = "account"
        /\ Steps(p)
        /\ (account = <<>> \/ ~account[1].isActive))
         => /\ pc'[p] = "done"
            /\ resp'[p].code = 404
            /\ posts' = posts]_vars

(* ---- C9 --------------------------------------------------------------- *)
\* C9: a publish invocation on an id that no post has answers 404 "Post not
\* found" at once; it changes no post, no analytics row and no account, and
\* calls no remote client.
C9_MissingPostNotFound ==
  [][\A p \in Handlers :
       (pc[p] = "idle" /\ Steps(p) /\ pid'[p] \notin DOMAIN posts)
         => /\ pc'[p] = "done"
            /\ resp'[p] = Json(404, "Post not found")
            /\ trace'[p] = <<"respond">>
            /\ UNCHANGED dbVars]_vars

\* A publish invocation on a missing id was answered while posts and an
\* analytics row were stored.
C9_Witness ==
  \E p \in Handlers :
    /\ pc[p] = "done"
    /\ resp[p].message = "Post not found"
    /\ DOMAIN posts # {}
    /\ DOMAIN postAnalytics # {}

(* ---- C10 -------------------------------------------------------------- *)
\* C10: only a failure of the remote client makes publish write status
\* failed: after a successful remote call the inner catch stores nothing.
C10_OnlyRemoteFailureWritesFailed ==
  [][\A p \in Handlers :
       (pc[p] = "failed" /\ Steps(p) /\ "remote_ok" \in Range(trace[p]))
         => posts' = posts]_vars

(* ---- C11 -------------------------------------------------------------- *)
\* C11: only publish changes a post's lifecycle columns: a step that is not
\* a step of a publish invocation leaves the status, tiktokPostId, postedAt
\* and errorMessage of every post it keeps as they were, and every stored
\* status is one of the five.
C11_LifecycleChangedOnlyByPublish ==
  [][(\A p \in Handlers : ~Steps(p))
       => \A id \in (DOMAIN posts) \cap (DOMAIN posts') :
            /\ posts'[id].status = posts[id].status
            /\ posts'[id].tiktokPostId = posts[id].tiktokPostId
            /\ posts'[id].postedAt = posts[id].postedAt
            /\ posts'[id].errorMessage = posts[id].errorMessage
            /\ posts'[id].status \in Statuses]_vars

(* ---- C12 -------------------------------------------------------------- *)
\* C12: a post that POST /api/posts stores starts as draft or scheduled, and
\* one that starts as scheduled has a scheduled time.
C12_IntakeStartsDraftOrScheduled ==
  [][\A id \in (DOMAIN posts') \ (DOMAIN posts) :
       /\ posts'[id].status \in {"draft", "scheduled"}
       /\ posts'[id].status = "scheduled" => posts'[id].scheduledAt # NoDate]_vars

(* ---- C13 -------------------------------------------------------------- *)
\* C13: every stored post whose status is failed has an error message.
C13_FailedHasErrorMessage ==
  \A id \in DOMAIN posts :
    posts[id].status = "failed" => posts[id].errorMessage # NULL

(* ---- C14 -------------------------------------------------------------- *)
\* C14: a sweep of simpleRoutes.ts or routes.ts that has answered has
\* answered success, has visited every post it selected whatever the remote
\* call did for the others, and has stored an analytics row for every post
\* that still exists and whose metrics call returned an entry.
C14_SweepCompletesPastFailures ==
  (spc = "done" /\ simpl # "server")
    => /\ sresp.code = 200
       /\ \A e \in Range(strace) :
            /\ e[1] = "selected"
                 => \E o \in {"skip", "no_entry", "remote_threw", "upsert",
                               "upsert_threw", "upsert_gone"} :
                      <<o, e[2]>> \in Range(strace)
            /\ e[1] = "entry"
                 => (<<"upsert", e[2]>> \in Range(strace)
                       \/ <<"upsert_gone", e[2]>> \in Range(strace))

(* ---- C15 -------------------------------------------------------------- *)
\* C15: when the metrics mapping has no entry for the post, the sweep stores
\* nothing for it, goes on to the next post or answers success, and is at
\* an upsert of simpleRoutes.ts or routes.ts only with an entry in hand.
C15_NoEntryNoUpsert ==
  [][/\ (spc = "metrics" /\ strace' = strace \o << <<"no_entry", queue[1].id>> >>)
         => /\ UNCHANGED <<postAnalytics, nextAnalyticsId>>
            /\ queue' = Tail(queue)
            /\ spc' \in {"account", "done"}
            /\ spc' = "done" => sresp'.code = 200
     /\ (spc' = "upsert" /\ simpl' # "server") => fetched' # <<>>]_vars

\* A sweep has answered success after it found no entry for a post that has
\* an analytics row.
C15_Witness ==
  /\ spc = "done"
  /\ sresp.code = 200
  /\ \E id \in DOMAIN posts :
       /\ <<"no_entry", id>> \in Range(strace)
       /\ analyticsOf(postAnalytics, id) # {}

(* ---- C16 -------------------------------------------------------------- *)
\* C16: a sweep calls the remote client for, and stores analytics of, only
\* posts that it read as owned by the swept user, posted and with a remote
\* post id, in every sync handler.
C16_SweepTouchesOnlySelectedPosts ==
  [][(spc \in {"account", "metrics", "upsert"} /\ strace' # strace
        /\ strace'[Len(strace')][1] \in {"entry", "no_entry", "remote_threw", "upsert"})
       => /\ queue[1].post.userId = suser
          /\ queue[1].post.status = "posted"
          /\ queue[1].post.tiktokPostId # NULL
          /\ \A k \in DOMAIN postAnalytics' :
               (k \notin DOMAIN postAnalytics \/ postAnalytics'[k] # postAnalytics[k])
                 => postAnalytics'[k].postId = queue[1].id]_vars

(* ---- C17 -------------------------------------------------------------- *)
\* C17: a selected post whose account is missing is skipped: nothing is
\* stored and no remote call is made for it, and the sweep goes on to the
\* next post or answers success.
C17_MissingAccountSkipped ==
  [][(spc = "account" /\ (spc' # spc \/ queue' # queue)
        /\ queue[1].post.tiktokAccountId \notin DOMAIN tiktokAccounts)
       => /\ UNCHANGED <<postAnalytics, nextAnalyticsId>>
          /\ strace' = strace \o << <<"skip", queue[1].id>> >>
          /\ queue' = Tail(queue)
          /\ spc' \in {"account", "done"}
          /\ spc' = "done" => sresp'.code = 200]_vars

\* A sweep has answered success after it skipped one post and stored the
\* analytics of a later one.
C17_Witness ==
  /\ spc = "done"
  /\ sresp.code = 200
  /\ \E i, j \in DOMAIN strace :
       i < j /\ strace[i][1] = "skip" /\ strace[j][1] = "upsert"

(* ---- C18 -------------------------------------------------------------- *)
\* C18: there is at most one analytics row for a post id; an upsert of a
\* sweep for a post that exists leaves exactly one row for it, holding the
\* counters and the timestamp of the upsert.
C18_UpsertKeepsOneRowPerPost ==
  [][/\ \A id \in PostIds : Cardinality(analyticsOf(postAnalytics', id)) <= 1
     /\ (spc = "upsert" /\ strace' # strace /\ queue[1].id \in DOMAIN posts)
         => /\ Cardinality(analyticsOf(postAnalytics', queue[1].id)) = 1
            /\ \A k \in analyticsOf(postAnalytics', queue[1].id) :
                 /\ postAnalytics'[k].viewCount \in Metrics
                 /\ simpl # "server" => postAnalytics'[k].viewCount = fetched[1]
                 /\ postAnalytics'[k].updatedAt \in Dates]_vars

(* ---- C19 -------------------------------------------------------------- *)
\* C19: only a sweep creates or changes an analytics row: a step of any
\* other request leaves every row it keeps as it was and adds none.
C19_AnalyticsWrittenOnlyBySweep ==
  [][(strace' = strace /\ spc' = spc)
       => \A k \in DOMAIN postAnalytics' :
            k \in DOMAIN postAnalytics /\ postAnalytics'[k] = postAnalytics[k]]_vars

(* ---- C20 -------------------------------------------------------------- *)
\* C20: the privacy_level of the post options a publish invocation builds
\* is PUBLIC_TO_EVERYONE for a public post, MUTUAL_FOLLOW_FRIEND for a
\* friends post and SELF_ONLY for a private post, whatever the other
\* columns of the post, and is one of the three levels for every value the
\* column can hold.
C20_PrivacyLevelMapping ==
  \A p \in Handlers :
    (postInfo[p] # <<>> /\ snap[p] # <<>>)
      => LET level == postInfo[p][1].privacy_level
             stored == snap[p][1].privacyLevel IN
         /\ stored = "public"  => level = "PUBLIC_TO_EVERYONE"
         /\ stored = "friends" => level = "MUTUAL_FOLLOW_FRIEND"
         /\ stored = "private" => level = "SELF_ONLY"
         /\ level \in {"PUBLIC_TO_EVERYONE", "MUTUAL_FOLLOW_FRIEND", "SELF_ONLY"}

\* Post options were built for a friends post that has a remote id and an
\* error message.
C20_Witness ==
  \E p \in Handlers :
    /\ postInfo[p] # <<>>
    /\ snap[p] # <<>>
    /\ snap[p][1].privacyLevel = "friends"
    /\ snap[p][1].tiktokPostId # NULL
    /\ snap[p][1].errorMessage # NULL
    /\ postInfo[p][1].privacy_level = "MUTUAL_FOLLOW_FRIEND"

(* ---- C21 ---------------------------------------------------------------- *)
\* Claim C21: in every publish implementation the remote call is handed
\* post options with title = the post's title, disable_duet = not
\* allowDuet, disable_comment = not allowComments and disable_stitch = not
\* allowStitch.  Violated: server.ts builds the options and calls
\* postVideo() without them.
C21_OptionsHanded ==
  [][\A p \in Handlers :
       (pc[p] = "call" /\ pc'[p] # "call") =>
         /\ Len(handed'[p]) = 1
         /\ handed'[p][1].title = snap[p][1].title
         /\ handed'[p][1].disable_duet = ~snap[p][1].allowDuet
         /\ handed'[p][1].disable_comment = ~snap[p][1].allowComments
         /\ handed'[p][1].disable_stitch = ~snap[p][1].allowStitch]_vars

(* ---- C22 ---------------------------------------------------------------- *)
\* Claim C22: a publish invocation calls the remote client at most once and
\* takes no step after it has answered; a post stored as failed changes its
\* status only by a step of an invocation other than the one that wrote
\* failed.
C22_OneRemoteCallPerInvocation ==
  [][/\ \A p \in Handlers :
          /\ Count(trace'[p], "remote_call") <= 1
          /\ pc[p] = "done" => (pc'[p] = "done" /\ trace'[p] = trace[p])
     /\ \A id \in DOMAIN posts :
          (/\ posts[id].status = "failed"
           /\ (id \notin DOMAIN posts' \/ posts'[id].status # "failed"))
            => \E q \in Handlers :
                 /\ Steps(q)
                 /\ pid[q] = id
                 /\ "write_failed" \notin Range(trace[q])]_vars

\* An invocation's one remote call threw, the post is stored as failed and
\* the invocation has answered; the next invocation published the post.
C22_Witness ==
  \E p, q \in Handlers :
    /\ pc[p] = "done"
    /\ Count(trace[p], "remote_call") = 1
    /\ "remote_threw" \in Range(trace[p])
    /\ "write_failed" \in Range(trace[p])
    /\ "read_failed" \in Range(trace[q])
    /\ "write_posted" \in Range(trace[q])
    /\ posts[pid[p]].status = "posted"

(* ---- C23 ---------------------------------------------------------------- *)
\* Claim C23: when two publish invocations on the same post both read it as
\* a draft, both wrote posting, both called the remote client and both
\* stored their last write, the post is posted or failed and is no mixture
\* of the two writes: it has a remote id and a postedAt exactly when it is
\* posted and an error message exactly when it is failed.
C23_LastWriteWinsWithoutMixture ==
  \A p, q \in Handlers :
    (/\ p # q
     /\ pid[p] = pid[q]
     /\ pc[p] = "done" /\ pc[q] = "done"
     /\ \A h \in {p, q} :
          /\ "read_draft" \in Range(trace[h])
          /\ "write_posting" \in Range(trace[h])
          /\ "remote_call" \in Range(trace[h])
          /\ Range(trace[h]) \cap {"write_posted", "write_failed"} # {}
     /\ pid[p] \in DOMAIN posts)
      => LET post == posts[pid[p]]
         IN /\ post.status \in {"posted", "failed"}
            /\ post.status = "posted" <=>
                 (post.tiktokPostId # NULL /\ post.postedAt # NoDate)
            /\ post.status = "failed" <=> post.errorMessage # NULL

(* ---- C24 ---------------------------------------------------------------- *)
\* Claim C24: a failed request of a query is retried if and only if fewer
\* than 3 failures came before it and it is not a 4xx response other than
\* 408 and 429, whatever the body of the response.  Violated: `retry` looks
\* for the characters 4, 408 and 429 anywhere in the message, so a 504, or a
\* 500 with a 4 in its body, is not retried, and a 404 whose body has 429
\* in it is.
C24_RetryUnlessClientError ==
  [][(queryState = "fetching" /\ queryError' # queryError /\ queryError' # <<>>)
       => LET status == queryError'[1].status
          IN (queryState' = "fetching" /\ failureCount' = failureCount + 1)
               <=> (/\ failureCount < 3
                    /\ ~(status \in 400..499 /\ status \notin {408, 429}))]_vars

(* ---- C25 ---------------------------------------------------------------- *)
\* Claim C25: every publish invocation that stored status posting stores
\* posted or failed before it returns, whatever the remote call and the
\* later writes do, so that no post stays in posting when no invocation on
\* it is in flight.
C25_PostingIsLeftBeforeReturn ==
  [][\A p \in Handlers :
       (Ends(p) /\ "write_posting" \in Range(trace[p]))
         => /\ Range(trace'[p]) \cap {"write_posted", "write_failed"} # {}
            /\ (NoneInFlight' /\ pid[p] \in DOMAIN posts')
                 => posts'[pid[p]].status # "posting"]_vars

(* ---- C26 ---------------------------------------------------------------- *)
\* Claim C26: for every post, over all publish invocations on it, the
\* remote publish call succeeds at most once.
C26_RemoteSuccessAtMostOnce ==
  \A id \in PostIds :
    Cardinality({p \in Handlers :
                   pid[p] = id /\ "remote_ok" \in Range(trace[p])}) <= 1

(* ---- C27 ---------------------------------------------------------------- *)
\* Claim C27: when the remote publish call has succeeded for a post and
\* every publish invocation has returned, the stored post is posted and has
\* a remote post id; it is not failed while the remote post exists.
C27_RemoteSuccessIsNeverLost ==
  \A p \in Handlers :
    (/\ NoneInFlight
     /\ "remote_ok" \in Range(trace[p])
     /\ pid[p] \in DOMAIN posts)
      => /\ posts[pid[p]].status = "posted"
         /\ posts[pid[p]].tiktokPostId \in RemoteIds

(* ---- C28 ---------------------------------------------------------------- *)
\* Claim C28: a step of a publish invocation changes nothing but the
\* status, remote post id, postedAt and errorMessage of the post it was
\* called for: the other columns of that post, every other post, the
\* accounts and the analytics rows stay as they are; and a step of the
\* analytics sweep changes no post and no account.
C28_PublishAndSyncFrames ==
  [][/\ \A p \in Handlers :
          Steps(p) =>
            /\ tiktokAccounts' = tiktokAccounts
            /\ postAnalytics' = postAnalytics
            /\ DOMAIN posts' = DOMAIN posts
            /\ \A id \in DOMAIN posts :
                 \A c \in DOMAIN posts[id] :
                   (id # pid'[p] \/ c \notin {"status", "tiktokPostId",
                                              "postedAt", "errorMessage"})
                     => posts'[id][c] = posts[id][c]
     /\ (spc' # spc \/ queue' # queue \/ strace' # strace)
          => (posts' = posts /\ tiktokAccounts' = tiktokAccounts)]_vars

\* A publish invocation has stored posted on one of two posts and the sweep
\* has stored an analytics row.
C28_Witness ==
  /\ Cardinality(DOMAIN posts) = 2
  /\ \E p \in Handlers :
       /\ "write_posted" \in Range(trace[p])
       /\ posts[pid[p]].status = "posted"
  /\ \E i \in DOMAIN strace : strace[i][1] = "upsert"
  /\ postAnalytics # <<>>

(* ---- C29 ---------------------------------------------------------------- *)
\* Claim C29: in the authenticated routes a request of a user that patches
\* or deletes a post, deletes an account or gets a publish invocation past
\* its load does so only on a record that this user owns.
C29_OnlyOwnerActsOnRecord ==
  [][\A user \in Users :
       /\ \A id \in DOMAIN posts :
            /\ (\E body \in AuthBodies : RoutesPatchPost(user, id, body))
                 => posts[id].userId = user
            /\ RoutesDeletePost(user, id) => posts[id].userId = user
            /\ (\E p \in Handlers :
                  RoutesPublish(user, p, id) /\ pc'[p] # "done")
                 => posts[id].userId = user
       /\ \A id \in DOMAIN tiktokAccounts :
            RoutesDeleteTikTokAccount(user, id)
              => tiktokAccounts[id].userId = user]_vars

(* ---- C30 ---------------------------------------------------------------- *)
\* Claim C30: a publish invocation that answers with success leaves the
\* post in the repository, posted and with the remote post id the remote
\* call returned, also when the post was deleted after the invocation
\* loaded it.
C30_SuccessImpliesStoredPosted ==
  [][\A p \in Handlers :
       (Ends(p) /\ resp'[p].code = 200)
         => /\ pid[p] \in DOMAIN posts'
            /\ posts'[pid[p]].status = "posted"
            /\ posts'[pid[p]].tiktokPostId = result[p]]_vars

====
